---- MODULE Spec2Model ----
(***************************************************************************)
(* Model of keyring_tools v2.0: the bulk CSV processor process_bulk_csv,   *)
(* the clipboard guard clear_clipboard_after and the GUI handlers that     *)
(* touch the clipboard.                                                    *)
(*                                                                         *)
(* Text is a sequence of one-character strings, so that str.strip(),       *)
(* str.lower() and len() are computed as Python computes them.             *)
(***************************************************************************)
EXTENDS Integers, Sequences, FiniteSets, TLC

\* ------------------------------------------------------------------------
\* Program constants
\* ------------------------------------------------------------------------
MAX_SYSTEM_LENGTH == 254
MAX_USERNAME_LENGTH == 32
MAX_PASSWORD_LENGTH == 400
\* clear_clipboard_after(delay: int = 30), and copy_to_clipboard's argument
DEFAULT_CLEAR_DELAY == 30
\* clear_clipboard_after(1) of the end-of-batch sweep
SWEEP_CLEAR_DELAY == 1

\* ------------------------------------------------------------------------
\* Bounds of the model
\* ------------------------------------------------------------------------
\* data rows of one CSV file
MaxRows == 2
\* clear threads started in one GUI session
MaxTimers == 2
\* seconds of wall-clock time observed in one GUI session
MaxTime == 32

\* ------------------------------------------------------------------------
\* Python values
\* ------------------------------------------------------------------------
\* Python's None (a missing CSV field, an absent keyring entry).  It is a
\* one-element sequence holding a token that is no character, so that it can
\* be compared with text.
None == << "<None>" >>
\* a local variable that has not been assigned yet
Unbound == << "<unbound>" >>

Whitespace == {" ", "\t"}

\* n copies of the character "x"
Rep(n) == [k \in 1..n |-> "x"]

RECURSIVE LStrip(_)
LStrip(s) == IF s # <<>> /\ Head(s) \in Whitespace THEN LStrip(Tail(s)) ELSE s

RECURSIVE RStrip(_)
RStrip(s) ==
    IF s # <<>> /\ s[Len(s)] \in Whitespace
    THEN RStrip(SubSeq(s, 1, Len(s) - 1))
    ELSE s

\* str.strip()
Strip(s) == RStrip(LStrip(s))

LowerChar(c) ==
    CASE c = "S" -> "s"
      [] c = "E" -> "e"
      [] c = "T" -> "t"
      [] c = "G" -> "g"
      [] c = "D" -> "d"
      [] c = "L" -> "l"
      [] OTHER -> c

\* str.lower()
Lower(s) == [k \in 1..Len(s) |-> LowerChar(s[k])]

\* bool(v) is False: None and the empty string
Falsy(v) == v = None \/ v = <<>>

\* str(v) inside an f-string
Render(v) == IF v = None THEN << "N", "o", "n", "e" >> ELSE v

W_set == << "s", "e", "t" >>
W_get == << "g", "e", "t" >>
W_del == << "d", "e", "l" >>
W_delete == << "d", "e", "l", "e", "t", "e" >>


\* ------------------------------------------------------------------------
\* The CSV rows csv.DictReader can yield for a four-column header.
\* A row shorter than the header has None in its trailing fields (restval);
\* a longer row keeps its surplus under the key None (extra), which no
\* row.get(...) of the program reads.
\* ------------------------------------------------------------------------
Row(f, s, u, p) ==
    [function |-> f, system |-> s, username |-> u, password |-> p, extra |-> FALSE]

T_a == << "a" >>
T_a_pad == << " ", "a", " " >>
T_b == << "b" >>
T_blank == << " " >>
T_u == << "u" >>
T_v == << "v" >>
T_p == << "p" >>
T_p_pad == << " ", "p" >>
T_old == << "o" >>
\* what the user had on the clipboard before the program started
T_other == << "z" >>
F_SET_pad == << " ", "S", "E", "T" >>

RowSet ==
    { Row(W_set, T_a, T_u, T_p),
      Row(F_SET_pad, T_a_pad, T_u, T_p_pad),
      Row(W_set, T_a, T_u, <<>>),
      Row(W_get, T_a, T_u, <<>>),
      Row(W_del, T_a, T_u, <<>>),
      Row(W_delete, T_a, T_u, <<>>),
      Row(W_get, T_a, T_u, None),
      Row(<<>>, T_b, T_v, <<>>),
      Row(W_get, T_b, None, None),
      Row(W_set, Rep(MAX_SYSTEM_LENGTH + 1), T_u, T_p),
      Row(W_del, Rep(MAX_SYSTEM_LENGTH + 1), <<>>, <<>>),
      Row(W_set, Rep(MAX_SYSTEM_LENGTH), T_u, T_p),
      Row(W_set, T_a, Rep(MAX_USERNAME_LENGTH + 1), T_p),
      Row(W_set, T_a, T_u, Rep(MAX_PASSWORD_LENGTH + 1)),
      Row(W_get, T_blank, T_u, <<>>),
      Row(W_del, T_b, T_v, <<>>),
      [Row(W_get, T_a, T_u, <<>>) EXCEPT !.extra = TRUE] }

ExpectedHeader == << "function", "system", "username", "password" >>

\* reader.fieldnames: the header line, or None for an empty file
HeaderSet ==
    { ExpectedHeader,
      << "func", "system", "username", "password" >>,
      << "system", "function", "username", "password" >>,
      << "function", "system", "username" >>,
      None }

\* ------------------------------------------------------------------------
\* The secret store behind the keyring library: a function from the
\* (system, username) pairs that have an entry to their password.
\* backendOk = FALSE is a backend failure (locked, unavailable, denied).
\* ------------------------------------------------------------------------
EmptyStore == [k \in {} |-> <<>>]

Put(st, key, value) ==
    [k \in DOMAIN st \cup {key} |-> IF k = key THEN value ELSE st[k]]

Remove(st, key) == [k \in DOMAIN st \ {key} |-> st[k]]

keyring_set_password(st, system, username, password, backendOk) ==
    IF backendOk
    THEN [exc |-> "none", value |-> None,
          store |-> Put(st, << system, username >>, password)]
    ELSE [exc |-> "PasswordSetError", value |-> None, store |-> st]

keyring_get_password(st, system, username, backendOk) ==
    IF backendOk
    THEN [exc |-> "none",
          value |-> IF << system, username >> \in DOMAIN st
                    THEN st[<< system, username >>]
                    ELSE None,
          store |-> st]
    ELSE [exc |-> "KeyringError", value |-> None, store |-> st]

keyring_delete_password(st, system, username, backendOk) ==
    IF backendOk /\ << system, username >> \in DOMAIN st
    THEN [exc |-> "none", value |-> None,
          store |-> Remove(st, << system, username >>)]
    ELSE [exc |-> "PasswordDeleteError", value |-> None, store |-> st]


\* ------------------------------------------------------------------------
\* State
\* ------------------------------------------------------------------------
VARIABLES
    mode,           \* "cli": result_display is None; "gui": it is a QLabel
    pc,             \* process_bulk_csv: "start", "rows", "done", "failed"
    fieldnames,     \* reader.fieldnames of the opened CSV file (None before)
    rows,           \* the data rows the reader has yielded so far, in order
    system,         \* local variable system of process_bulk_csv
    username,       \* local variable username of process_bulk_csv
    store,          \* the secret store
    calls,          \* the keyring calls issued by process_bulk_csv, in order
    log,            \* the lines of keyring_results.txt, as written through
                    \* out_file by the running call of process_bulk_csv
    logState,       \* out_file: "unopened", "open", "closed"
    reports,        \* the update_status calls, in order
    exitCode,       \* -1 while the process runs, else its exit code
    clipboard,      \* the text on the system clipboard
    clipboardWorks, \* FALSE: pyperclip.copy raises (no clipboard mechanism)
    timers,         \* the threads started by clear_clipboard_after
    now,            \* wall-clock seconds since the start
    alive,          \* the Python process is running
    pwField,        \* text of the GUI's password field
    copyEnabled,    \* the GUI's Copy button is enabled
    suspended       \* the calls of process_bulk_csv that wait inside
                    \* update_status while a nested call runs, outermost
                    \* first

vars ==
    << mode, pc, fieldnames, rows, system, username, store, calls, log,
       logState, reports, exitCode, clipboard, clipboardWorks, timers, now,
       alive, pwField, copyEnabled, suspended >>

batchVars ==
    << pc, fieldnames, rows, system, username, store, calls, log, logState,
       reports >>

\* a line of the results log left by an earlier run
OldLine ==
    [status |-> "SUCCESS", kind |-> "Set password for", system |-> T_b,
     username |-> T_v, arg |-> <<>>]

\* ------------------------------------------------------------------------
\* process_bulk_csv: the body of the per-row try block
\* ------------------------------------------------------------------------
\* line 141: not row.get("function") or not row.get("system") or ...
MissingRequired(row) ==
    Falsy(row.function) \/ Falsy(row.system) \/ Falsy(row.username)

SystemTooLong == "System name must be <= MAX_SYSTEM_LENGTH characters"

\* the length checks with the system limit off by one
LengthErrorOffByOne(function, sys, usr, password) ==
    IF Len(sys) > MAX_SYSTEM_LENGTH + 1
    THEN SystemTooLong
    ELSE IF Len(usr) > MAX_USERNAME_LENGTH
    THEN "Username must be <= MAX_USERNAME_LENGTH characters"
    ELSE IF function = W_set /\ Len(password) > MAX_PASSWORD_LENGTH
    THEN "Password must be <= MAX_PASSWORD_LENGTH characters"
    ELSE "none"

\* lines 150-155: the message of the ValueError raised, or "none"
LengthError(function, sys, usr, password) ==
    IF Len(sys) > MAX_SYSTEM_LENGTH
    THEN "System name must be <= MAX_SYSTEM_LENGTH characters"
    ELSE IF Len(usr) > MAX_USERNAME_LENGTH
    THEN "Username must be <= MAX_USERNAME_LENGTH characters"
    ELSE IF function = W_set /\ Len(password) > MAX_PASSWORD_LENGTH
    THEN "Password must be <= MAX_PASSWORD_LENGTH characters"
    ELSE "none"

\* a keyring call; row is the number of the CSV row that issued it
Call(op, sys, usr, password) ==
    [op |-> op, system |-> sys, username |-> usr, password |-> password,
     row |-> 0]

\* lines 157-160: function == "set"
DoSet(sys, usr, password, st, backendOk) ==
    LET r == keyring_set_password(st, sys, usr, password, backendOk)
    IN  [exc |-> r.exc, kind |-> "Set password for", arg |-> <<>>,
         store |-> r.store, calls |-> << Call("set", sys, usr, password) >>]

\* a get branch that logs the row's own password column instead of the
\* password retrieved from the store
DoGetLogsRowPassword(sys, usr, password, st, backendOk) ==
    LET r == keyring_get_password(st, sys, usr, backendOk)
    IN  [exc |-> r.exc, kind |-> "Get password for", arg |-> Render(password),
         store |-> r.store, calls |-> << Call("get", sys, usr, <<>>) >>]

\* a get branch that treats an absent entry as an error
DoGetAbsentIsError(sys, usr, password, st, backendOk) ==
    LET r == keyring_get_password(st, sys, usr, backendOk)
    IN  [exc |-> IF r.exc = "none" /\ r.value = None
                 THEN "No password found" ELSE r.exc,
         kind |-> "Get password for", arg |-> Render(r.value),
         store |-> r.store, calls |-> << Call("get", sys, usr, <<>>) >>]

\* lines 161-164: function == "get"
DoGet(sys, usr, password, st, backendOk) ==
    LET r == keyring_get_password(st, sys, usr, backendOk)
    IN  [exc |-> r.exc, kind |-> "Get password for", arg |-> Render(r.value),
         store |-> r.store, calls |-> << Call("get", sys, usr, <<>>) >>]

\* a del branch that swallows the error of keyring.delete_password
DoDelSwallowsError(sys, usr, password, st, backendOk) ==
    LET r == keyring_delete_password(st, sys, usr, backendOk)
    IN  [exc |-> "none", kind |-> "Deleted password for", arg |-> <<>>,
         store |-> r.store, calls |-> << Call("del", sys, usr, <<>>) >>]

\* lines 165-168: function == "del"
DoDel(sys, usr, password, st, backendOk) ==
    LET r == keyring_delete_password(st, sys, usr, backendOk)
    IN  [exc |-> r.exc, kind |-> "Deleted password for", arg |-> <<>>,
         store |-> r.store, calls |-> << Call("del", sys, usr, <<>>) >>]

\* lines 157-170 with the word delete accepted beside del
DispatchAcceptsDelete(function, sys, usr, password, st, backendOk) ==
    IF function = W_set
    THEN DoSet(sys, usr, password, st, backendOk)
    ELSE IF function = W_get
    THEN DoGet(sys, usr, password, st, backendOk)
    ELSE IF function \in {W_del, W_delete}
    THEN DoDel(sys, usr, password, st, backendOk)
    ELSE [exc |-> "Invalid function", kind |-> "", arg |-> function,
          store |-> st, calls |-> <<>>]

\* lines 157-170: the keyring call of a validated row.  exc is the message
\* of the exception raised ("none": no exception), kind and arg the text of
\* result, calls the keyring calls made.
Dispatch(function, sys, usr, password, st, backendOk) ==
    IF function = W_set
    THEN DoSet(sys, usr, password, st, backendOk)
    ELSE IF function = W_get
    THEN DoGet(sys, usr, password, st, backendOk)
    ELSE IF function = W_del
    THEN DoDel(sys, usr, password, st, backendOk)
    ELSE [exc |-> "Invalid function", kind |-> "", arg |-> function,
          store |-> st, calls |-> <<>>]

MissingFields == "Missing required field(s): function, system, or username"

\* lines 141-170: what the try block does with one row.  sys0 and usr0 are
\* the values the locals system and username hold when the row starts; the
\* result carries their values when the block ends.
RowBody(row, sys0, usr0, st, backendOk) ==
    IF MissingRequired(row)
    THEN [exc |-> MissingFields,
          kind |-> "", arg |-> <<>>, system |-> sys0, username |-> usr0,
          store |-> st, calls |-> <<>>]
    ELSE LET function == Lower(Strip(row.function))
             sys == Strip(row.system)
             usr == Strip(row.username)
         IN  IF row.password = None
             THEN [exc |-> "'NoneType' object has no attribute 'strip'",
                   kind |-> "", arg |-> <<>>, system |-> sys, username |-> usr,
                   store |-> st, calls |-> <<>>]
             ELSE LET password == Strip(row.password)
                      bad == LengthError(function, sys, usr, password)
                      d == Dispatch(function, sys, usr, password, st, backendOk)
                  IN  IF bad # "none"
                      THEN [exc |-> bad, kind |-> "", arg |-> <<>>,
                            system |-> sys, username |-> usr, store |-> st,
                            calls |-> <<>>]
                      ELSE [exc |-> d.exc, kind |-> d.kind, arg |-> d.arg,
                            system |-> sys, username |-> usr,
                            store |-> d.store, calls |-> d.calls]

\* line 172-173: f"SUCCESS: {result}"
SuccessLine(b) ==
    [status |-> "SUCCESS", kind |-> b.kind, system |-> b.system,
     username |-> b.username, arg |-> b.arg]

\* line 176: f"ERROR: {system}/{username} - {str(e)}", read from the locals
ErrorLine(b) ==
    [status |-> "ERROR", kind |-> b.exc, system |-> b.system,
     username |-> b.username, arg |-> b.arg]

\* line 176 raises UnboundLocalError when the locals were never assigned
HandlerRaises(b) == b.system = Unbound \/ b.username = Unbound

\* an update_status call: what is shown, with the number of lines written
\* to the log and the state of out_file at the moment of the call
Report(kind, isError, line, n, ls) ==
    [kind |-> kind, is_error |-> isError, line |-> line, logLen |-> n,
     logState |-> ls]

NoLine ==
    [status |-> "", kind |-> "", system |-> <<>>, username |-> <<>>, arg |-> <<>>]

\* lines 199-201: f"Failed to process CSV: {str(e)}"; the with block has
\* been left, so out_file is closed if it was ever opened
FatalReport(exc, n, ls) ==
    Report("fatal", TRUE,
           [NoLine EXCEPT !.status = "Failed to process CSV", !.kind = exc], n, ls)

\* a thread started by clear_clipboard_after(delay) at time start
Timer(start, delay) == [start |-> start, delay |-> delay, st |-> "sleeping"]

Due(t) == t.start + t.delay

\* a header check that accepts the four names in any order
HeaderOkAnyOrder(h) ==
    /\ h # None
    /\ Len(h) = Len(ExpectedHeader)
    /\ {h[k] : k \in 1..Len(h)} = {ExpectedHeader[k] : k \in 1..Len(ExpectedHeader)}

\* line 134: reader.fieldnames != ["function", "system", "username", "password"]
HeaderOk(h) == h = ExpectedHeader

\* ------------------------------------------------------------------------
\* process_bulk_csv
\* ------------------------------------------------------------------------
\* lines 199-203: the outer except: report once, and sys.exit(1) in CLI mode
Fatal(exc, n, ls) ==
    /\ reports' = Append(reports, FatalReport(exc, n, ls))
    /\ pc' = "failed"
    /\ IF mode = "cli"
       THEN exitCode' = 1 /\ alive' = FALSE
       ELSE UNCHANGED << exitCode, alive >>

\* lines 127-136: open the CSV file, then the results log (truncating it),
\* then compare the header
Open ==
    /\ pc = "start"
    /\ alive
    /\ \E inputOk \in BOOLEAN, logOk \in BOOLEAN, header \in HeaderSet :
         IF ~inputOk
         THEN /\ Fatal("No such file or directory", Len(log), logState)
              /\ UNCHANGED << fieldnames, log, logState >>
         ELSE IF ~logOk
         THEN /\ Fatal("Permission denied", Len(log), logState)
              /\ UNCHANGED << fieldnames, log, logState >>
         ELSE IF ~HeaderOk(header)
         THEN /\ fieldnames' = header
              /\ log' = <<>>
              /\ logState' = "closed"
              /\ Fatal("CSV must have headers: function,system,username,password",
                       0, "closed")
         ELSE /\ fieldnames' = header
              /\ log' = <<>>
              /\ logState' = "open"
              /\ pc' = "rows"
              /\ UNCHANGED << reports, exitCode, alive >>
    /\ UNCHANGED << mode, suspended, rows, system, username, store, calls, clipboard,
                    clipboardWorks, timers, now, pwField, copyEnabled >>

\* the rows read so far by the calls that wait in suspended[1..n]
RECURSIVE SuspendedRows(_)
SuspendedRows(n) ==
    IF n = 0 THEN 0 ELSE Len(suspended[n].rows) + SuspendedRows(n - 1)

\* the rows read so far by all calls of process_bulk_csv in progress
RowsRead == Len(rows) + SuspendedRows(Len(suspended))

\* lines 138-178: one iteration of the loop over the reader
ProcessRow ==
    /\ pc = "rows"
    /\ alive
    /\ RowsRead < MaxRows
    /\ \E row \in RowSet, backendOk \in BOOLEAN :
         LET b == RowBody(row, system, username, store, backendOk)
             n == Len(rows) + 1
         IN  /\ rows' = Append(rows, row)
             /\ system' = b.system
             /\ username' = b.username
             /\ store' = b.store
             /\ calls' = calls \o [k \in 1..Len(b.calls) |-> [b.calls[k] EXCEPT !.row = n]]
             /\ IF b.exc = "none"
                THEN /\ reports' = Append(reports,
                            Report("row", FALSE, SuccessLine(b), Len(log), "open"))
                     /\ log' = Append(log, SuccessLine(b))
                     /\ UNCHANGED << pc, logState, exitCode, alive >>
                ELSE IF HandlerRaises(b)
                THEN /\ logState' = "closed"
                     /\ Fatal("cannot access local variable 'system'", Len(log), "closed")
                     /\ UNCHANGED log
                ELSE /\ log' = Append(log, ErrorLine(b))
                     /\ reports' = Append(reports,
                            Report("row", TRUE, ErrorLine(b), Len(log) + 1, "open"))
                     /\ UNCHANGED << pc, logState, exitCode, alive >>
    /\ UNCHANGED << mode, suspended, fieldnames, clipboard, clipboardWorks, timers, now,
                    pwField, copyEnabled >>

\* lines 180-197 once the reader is exhausted: the completion message, the
\* viewer in GUI mode, the clipboard sweep; then the with block closes the
\* files and, in CLI mode, the script ends with exit code 0
Complete ==
    /\ pc = "rows"
    /\ alive
    /\ clipboardWorks => Len(timers) < MaxTimers
    /\ \E viewerOk \in IF mode = "gui" THEN BOOLEAN ELSE {TRUE} :
         LET r1 == Append(reports, Report("complete", FALSE, NoLine, Len(log), "open"))
             r2 == IF viewerOk
                   THEN r1
                   ELSE Append(r1, Report("warn", TRUE,
                            [NoLine EXCEPT !.status = "Failed to auto-open results"],
                            Len(log), "open"))
         IN  IF clipboardWorks
             THEN /\ clipboard' = <<>>
                  /\ timers' = Append(timers, Timer(now, SWEEP_CLEAR_DELAY))
                  /\ reports' = r2
                  /\ pc' = "done"
                  /\ IF mode = "cli"
                     THEN exitCode' = 0 /\ alive' = FALSE
                     ELSE UNCHANGED << exitCode, alive >>
             ELSE /\ reports' = Append(r2,
                        FatalReport("Pyperclip could not find a copy/paste mechanism",
                                    Len(log), "closed"))
                  /\ pc' = "failed"
                  /\ IF mode = "cli"
                     THEN exitCode' = 1 /\ alive' = FALSE
                     ELSE UNCHANGED << exitCode, alive >>
                  /\ UNCHANGED << clipboard, timers >>
    /\ logState' = "closed"
    /\ UNCHANGED << mode, suspended, fieldnames, rows, system, username, store, calls, log,
                    clipboardWorks, now, pwField, copyEnabled >>

\* the store holds an entry for b/v and none for a/u when the run starts
InitialStore == Put(EmptyStore, << T_b, T_v >>, T_old)

Init ==
    /\ mode \in {"cli", "gui"}
    /\ pc = "start"
    /\ fieldnames = Unbound
    /\ rows = <<>>
    /\ system = Unbound
    /\ username = Unbound
    /\ store = InitialStore
    /\ calls = <<>>
    /\ log = << OldLine >>
    /\ logState = "unopened"
    /\ reports = <<>>
    /\ exitCode = -1
    /\ clipboard = T_other
    /\ clipboardWorks \in BOOLEAN
    /\ timers = <<>>
    /\ now = 0
    /\ alive = TRUE
    /\ pwField = <<>>
    /\ copyEnabled = FALSE
    /\ suspended = <<>>

Next == Open \/ ProcessRow \/ Complete

Spec == Init /\ [][Next]_vars


\* ------------------------------------------------------------------------
\* The GUI session: the handlers of KeyringApp that touch the password
\* field and the clipboard, the clear threads, and the passing of time
\* ------------------------------------------------------------------------
\* the (system, username) pairs typed into the form
FormKeys == { << T_b, T_v >> }

\* the texts typed into the password field
FormPasswords == { <<>>, T_p }

GuiIdle == mode = "gui" /\ alive /\ pc = "start"

\* lines 692-732: the Go button
ExecuteAction ==
    /\ GuiIdle
    /\ \E radio \in {"get", "del", "set"}, key \in FormKeys,
          typed \in FormPasswords, backendOk \in BOOLEAN :
         IF radio = "get"
         THEN LET r == keyring_get_password(store, key[1], key[2], backendOk)
              IN  /\ IF r.exc # "none"
                     THEN UNCHANGED << pwField, copyEnabled >>
                     ELSE IF ~Falsy(r.value)
                     THEN pwField' = r.value /\ copyEnabled' = TRUE
                     ELSE copyEnabled' = FALSE /\ UNCHANGED pwField
                  /\ UNCHANGED store
         ELSE IF radio = "del"
         THEN LET r == keyring_delete_password(store, key[1], key[2], backendOk)
              IN  /\ store' = r.store
                  /\ copyEnabled' = IF r.exc = "none" THEN FALSE ELSE copyEnabled
                  /\ UNCHANGED pwField
         ELSE /\ pwField' = typed
              /\ IF Strip(typed) = <<>>
                 THEN UNCHANGED << store, copyEnabled >>
                 ELSE LET r == keyring_set_password(store, key[1], key[2],
                                                    Strip(typed), backendOk)
                      IN  /\ store' = r.store
                          /\ copyEnabled' =
                                 IF r.exc = "none" THEN FALSE ELSE copyEnabled
    /\ UNCHANGED << mode, suspended, pc, fieldnames, rows, system, username, calls, log,
                    logState, reports, exitCode, clipboard, clipboardWorks,
                    timers, now, alive >>

\* lines 660-675: the Copy button
CopyToClipboard ==
    /\ GuiIdle
    /\ copyEnabled
    /\ (pwField # <<>> /\ clipboardWorks) => Len(timers) < MaxTimers
    /\ IF pwField # <<>> /\ clipboardWorks
       THEN /\ clipboard' = pwField
            /\ timers' = Append(timers, Timer(now, DEFAULT_CLEAR_DELAY))
       ELSE UNCHANGED << clipboard, timers >>
    /\ UNCHANGED << mode, suspended, batchVars, exitCode, clipboardWorks, now, alive,
                    pwField, copyEnabled >>

\* lines 677-690, clear_sensitive_fields: the clipboard after pyperclip.copy("")
\* inside its try block
ClearedClipboard == IF clipboardWorks THEN <<>> ELSE clipboard

\* lines 505-507 and 570-575: a radio button toggled
RadioToggled ==
    /\ GuiIdle
    /\ pwField' = <<>>
    /\ clipboard' = ClearedClipboard
    /\ copyEnabled' = FALSE
    /\ UNCHANGED << mode, suspended, batchVars, exitCode, clipboardWorks, timers, now,
                    alive >>

\* lines 734-741: the Exit button
SecureExit ==
    /\ GuiIdle
    /\ pwField' = <<>>
    /\ clipboard' = ClearedClipboard
    /\ copyEnabled' = FALSE
    /\ alive' = FALSE
    /\ exitCode' = 0
    /\ UNCHANGED << mode, suspended, batchVars, clipboardWorks, timers, now >>

\* lines 768-775: the window is closed by the window manager; app.exec()
\* returns and sys.exit ends the process, and with it the daemon threads
CloseWindow ==
    /\ GuiIdle
    /\ alive' = FALSE
    /\ exitCode' = 0
    /\ UNCHANGED << mode, suspended, batchVars, clipboard, clipboardWorks, timers, now,
                    pwField, copyEnabled >>

\* lines 80-83: a clear thread wakes up after its delay and empties the
\* clipboard; a daemon thread runs only while the process is alive
ClearThread ==
    /\ alive
    /\ \E t \in 1..Len(timers) :
         /\ timers[t].st = "sleeping"
         /\ now >= Due(timers[t])
         /\ timers' = [timers EXCEPT ![t].st = "done"]
         /\ clipboard' = <<>>
    /\ UNCHANGED << mode, suspended, batchVars, exitCode, clipboardWorks, now, alive,
                    pwField, copyEnabled >>

\* one second passes; a thread whose delay has elapsed runs first
Tick ==
    /\ now < MaxTime
    /\ alive => \A t \in 1..Len(timers) :
                    timers[t].st = "sleeping" => Due(timers[t]) > now
    /\ now' = now + 1
    /\ UNCHANGED << mode, suspended, batchVars, exitCode, clipboard, clipboardWorks,
                    timers, alive, pwField, copyEnabled >>

InitClip ==
    /\ Init
    /\ mode = "gui"

NextClip ==
    \/ ExecuteAction
    \/ CopyToClipboard
    \/ RadioToggled
    \/ SecureExit
    \/ CloseWindow
    \/ ClearThread
    \/ Tick

SpecClip == InitClip /\ [][NextClip]_vars

\* ------------------------------------------------------------------------
\* The command line: cli_handler, lines 206-261
\* ------------------------------------------------------------------------
\* the (system, username) pairs given on the command line; argparse hands
\* them over as typed, nothing is stripped
CliKeys == { << T_a, T_u >>, << T_b, T_v >> }

\* the passwords given to the set subcommand
CliPasswords == { T_p, T_other }

\* lines 253-258: the handler of PasswordDeleteError prints and returns, so
\* the script ends with status 0; every other exception reaches sys.exit(1)
CliExit(exc) ==
    IF exc = "none" THEN 0
    ELSE IF exc = "PasswordDeleteError" THEN 0
    ELSE 1

\* lines 242-258: one subcommand against the store
CliOutcome(command, sys, usr, password, st, backendOk) ==
    LET r == IF command = "set"
             THEN keyring_set_password(st, sys, usr, password, backendOk)
             ELSE IF command = "get"
             THEN keyring_get_password(st, sys, usr, backendOk)
             ELSE keyring_delete_password(st, sys, usr, backendOk)
        shown == IF r.exc = "PasswordDeleteError"
                 THEN "ERROR: Failed to delete credential store."
                 ELSE IF r.exc # "none" THEN "Error"
                 ELSE IF command = "set" THEN "Password set for"
                 ELSE IF command = "get" THEN "Get password for"
                 ELSE "has been deleted"
        \* line 247: get_password(...) or "No password found"
        arg == IF command = "get" /\ r.exc = "none"
               THEN IF Falsy(r.value) THEN << "No password found" >> ELSE r.value
               ELSE <<>>
    IN  [exc |-> r.exc, store |-> r.store, exit |-> CliExit(r.exc),
         \* only the generic handler prints to stderr
         is_error |-> r.exc \notin {"none", "PasswordDeleteError"},
         line |-> [status |-> shown, kind |-> r.exc, system |-> sys,
                   username |-> usr, arg |-> arg]]

\* lines 241-258: keyring_tools.py set|get|del system username [password]
CliCommand ==
    /\ mode = "cli"
    /\ alive
    /\ pc = "start"
    /\ \E command \in {"set", "get", "del"}, key \in CliKeys,
          password \in CliPasswords, backendOk \in BOOLEAN :
          LET o == CliOutcome(command, key[1], key[2], password, store, backendOk)
          IN  /\ store' = o.store
              /\ calls' = Append(calls, Call(command, key[1], key[2],
                                  IF command = "set" THEN password ELSE <<>>))
              /\ reports' = Append(reports,
                     Report("cli", o.is_error, o.line, Len(log), logState))
              /\ exitCode' = o.exit
    /\ pc' = "done"
    /\ alive' = FALSE
    /\ UNCHANGED << mode, suspended, fieldnames, rows, system, username, log, logState,
                    clipboard, clipboardWorks, timers, now, pwField,
                    copyEnabled >>

\* lines 259-261: neither --bulk nor a subcommand: the help text, status 1
CliNoCommand ==
    /\ mode = "cli"
    /\ alive
    /\ pc = "start"
    /\ reports' = Append(reports,
           Report("help", FALSE, NoLine, Len(log), logState))
    /\ exitCode' = 1
    /\ pc' = "help"
    /\ alive' = FALSE
    /\ UNCHANGED << mode, suspended, fieldnames, rows, system, username, store, calls,
                    log, logState, clipboard, clipboardWorks, timers, now,
                    pwField, copyEnabled >>

InitCli ==
    /\ Init
    /\ mode = "cli"

\* line 239-261: --bulk FILE runs process_bulk_csv, a subcommand runs one
\* store operation
NextCli ==
    \/ CliCommand
    \/ CliNoCommand
    \/ Open
    \/ ProcessRow
    \/ Complete

SpecCli == InitCli /\ [][NextCli]_vars

\* ------------------------------------------------------------------------
\* Re-entry in GUI mode: update_status ends with
\* QApplication.processEvents() (line 123), which handles a pending click on
\* the bulk button (line 483) before it returns
\* ------------------------------------------------------------------------
\* how many calls of process_bulk_csv may wait inside update_status
MaxNesting == 1

\* a call of process_bulk_csv that waits inside update_status: its locals,
\* the lines it has written through its out_file, and the line it writes
\* once update_status returns (line 173; NoLine when nothing is left to
\* write)
Frame(rws, sys, usr, fns, written, pending) ==
    [rows |-> rws, system |-> sys, username |-> usr, fieldnames |-> fns,
     log |-> written, pending |-> pending]

\* lines 138-178 with the click handled inside the row's update_status:
\* KeyringApp.process_bulk_csv (lines 755-760) shows the file dialog, a file
\* is chosen and a nested call of process_bulk_csv starts while this one
\* waits at line 172 (the SUCCESS line not yet written) or at line 178
BulkClickedDuringStatus ==
    /\ mode = "gui"
    /\ pc = "rows"
    /\ alive
    /\ RowsRead < MaxRows
    /\ Len(suspended) < MaxNesting
    /\ \E row \in RowSet, backendOk \in BOOLEAN :
         LET b == RowBody(row, system, username, store, backendOk)
             n == Len(rows) + 1
         IN  /\ ~(b.exc # "none" /\ HandlerRaises(b))
             /\ store' = b.store
             /\ calls' = calls \o
                    [k \in 1..Len(b.calls) |-> [b.calls[k] EXCEPT !.row = n]]
             /\ IF b.exc = "none"
                THEN /\ reports' = Append(reports,
                            Report("row", FALSE, SuccessLine(b), Len(log), "open"))
                     /\ suspended' = Append(suspended,
                            Frame(Append(rows, row), b.system, b.username,
                                  fieldnames, log, SuccessLine(b)))
                     /\ UNCHANGED log
                ELSE /\ reports' = Append(reports,
                            Report("row", TRUE, ErrorLine(b), Len(log) + 1, "open"))
                     /\ suspended' = Append(suspended,
                            Frame(Append(rows, row), b.system, b.username,
                                  fieldnames, Append(log, ErrorLine(b)), NoLine))
                     /\ log' = Append(log, ErrorLine(b))
    \* the nested call starts with fresh locals and no out_file of its own
    /\ pc' = "start"
    /\ fieldnames' = Unbound
    /\ rows' = <<>>
    /\ system' = Unbound
    /\ username' = Unbound
    /\ logState' = "unopened"
    /\ UNCHANGED << mode, exitCode, clipboard, clipboardWorks, timers, now,
                    alive, pwField, copyEnabled >>

\* the nested call has returned: processEvents and update_status return and
\* the waiting call goes on, its out_file still open, with what it had to
\* write (line 173)
NestedRunReturns ==
    /\ mode = "gui"
    /\ alive
    /\ suspended # <<>>
    /\ pc \in {"done", "failed"}
    /\ LET f == suspended[Len(suspended)]
       IN  /\ rows' = f.rows
           /\ system' = f.system
           /\ username' = f.username
           /\ fieldnames' = f.fieldnames
           /\ log' = IF f.pending = NoLine THEN f.log ELSE Append(f.log, f.pending)
    /\ pc' = "rows"
    /\ logState' = "open"
    /\ suspended' = SubSeq(suspended, 1, Len(suspended) - 1)
    /\ UNCHANGED << mode, store, calls, reports, exitCode, clipboard,
                    clipboardWorks, timers, now, alive, pwField, copyEnabled >>

InitReentrant ==
    /\ Init
    /\ mode = "gui"

NextReentrant ==
    \/ Open
    \/ ProcessRow
    \/ Complete
    \/ BulkClickedDuringStatus
    \/ NestedRunReturns

SpecReentrant == InitReentrant /\ [][NextReentrant]_vars

\* C18: while one call of process_bulk_csv is between opening and closing
\* the results log, no other call opens, truncates or writes that log: as
\* long as a call waits inside update_status, the call started from the GUI
\* event handled there has not opened the log.
C18_LogOwnedByOneRun ==
    suspended # <<>> => logState = "unopened"

\* a single-operation run of the command line has ended
CliRan == pc = "done" /\ Len(reports) = 1 /\ reports[1].kind = "cli"

\* C11: in single-operation command-line mode every error of the store
\* operation, a delete of an absent entry included, is shown to the user and
\* ends the process with a nonzero exit status; exit status 0 occurs only
\* when the store operation succeeded.
C11_StoreErrorExitsNonzero ==
    CliRan =>
        /\ reports[1].line.kind # "none" => exitCode >= 1
        /\ exitCode = 0 => reports[1].line.kind = "none"

\* ------------------------------------------------------------------------
\* Properties of the clipboard guard
\* ------------------------------------------------------------------------
\* C8: two copies within the clear delay, each with its own clear thread,
\* and no further copy: once the longer of the two delays has elapsed the
\* clipboard is empty.
C8_OverlappingCopiesCleared ==
    ( /\ Len(timers) = 2
      /\ timers[1].delay = DEFAULT_CLEAR_DELAY
      /\ timers[2].delay = DEFAULT_CLEAR_DELAY
      /\ timers[2].start < Due(timers[1])
      /\ now > Due(timers[2]) )
    => clipboard = <<>>

\* C9: once a secret was copied and its clear scheduled, the clipboard is
\* empty after the delay, whether or not the surface that copied it is
\* still running.
C9_ClearSurvivesSurface ==
    ( /\ Len(timers) = 1
      /\ now > Due(timers[1]) )
    => clipboard = <<>>

\* ------------------------------------------------------------------------
\* Properties of the batch run
\* ------------------------------------------------------------------------
\* the run has returned (or exited)
Finished == pc \in {"done", "failed"}

\* both files opened and the header was accepted
Accepted == fieldnames = ExpectedHeader

\* the (system, username) pair a row names, as the program trims it
RowKey(row) == << Strip(row.system), Strip(row.username) >>

\* the operation word of a row, as the program normalises it
RowFunction(row) == Lower(Strip(row.function))

\* a row that has all four fields
FourFields(row) ==
    row.system # None /\ row.username # None /\ row.password # None

\* the keyring calls row k issued
CallsOf(k) == {c \in 1..Len(calls) : calls[c].row = k}

\* line k of the log names the system and username of row k
NamesRow(line, row) ==
    /\ line.system \in {row.system, Strip(row.system)}
    /\ line.username \in {row.username, Strip(row.username)}

\* C1: when an accepted run finishes, the results log holds exactly one line
\* per data row read, and the i-th line reports the i-th row.
C1_OneLinePerRowInOrder ==
    (Finished /\ Accepted) =>
        /\ Len(log) = Len(rows)
        /\ \A k \in 1..Len(rows) : k <= Len(log) => NamesRow(log[k], rows[k])

\* C2: a row-local failure never ends the run: every row read has been
\* recorded in the log, and no 'Failed to process CSV' report carries an
\* error raised while a row was processed.
C2_RowFailureNeverFatal ==
    /\ Accepted => Len(log) = Len(rows)
    /\ \A r \in 1..Len(reports) :
         (reports[r].kind = "fatal" /\ Len(rows) > 0) =>
             reports[r].line.kind = "Pyperclip could not find a copy/paste mechanism"

\* C3: a header that is not exactly function,system,username,password fails
\* the batch before any row: no row is read, no keyring call is made, the log
\* holds no line, the failure is reported exactly once, as an error, and in
\* CLI mode the process has exited with a nonzero code.
C3_BadHeaderRejectsBatch ==
    (fieldnames # Unbound /\ fieldnames # ExpectedHeader) =>
        /\ pc = "failed"
        /\ rows = <<>>
        /\ calls = <<>>
        /\ log = <<>>
        /\ Len(reports) = 1
        /\ reports[1].kind = "fatal"
        /\ reports[1].is_error
        /\ mode = "cli" => (exitCode >= 1 /\ ~alive)

C3_Witness ==
    /\ fieldnames = << "func", "system", "username", "password" >>
    /\ pc = "failed"
    /\ mode = "cli"
    /\ exitCode = 1

\* a row asking for a delete ("del", or the word "delete") that names a pair
DeleteRow(row) ==
    /\ ~MissingRequired(row)
    /\ RowFunction(row) \in {W_del, W_delete}

\* C4: processing a delete row whose (system, username) pair has no entry in
\* the store appends an ERROR line, not a SUCCESS line, and leaves the store
\* unchanged, whatever rows came before.
C4_DeleteAbsentFails ==
    [][ ( /\ pc = "rows"
          /\ Len(rows') = Len(rows) + 1
          /\ DeleteRow(rows'[Len(rows')])
          /\ RowKey(rows'[Len(rows')]) \notin DOMAIN store )
        => ( /\ Len(log') = Len(log) + 1
             /\ log'[Len(log')].status = "ERROR"
             /\ store' = store ) ]_vars

C4_Witness ==
    /\ Len(rows) = 2
    /\ Len(log) = 2
    /\ rows[1] = Row(W_del, T_b, T_v, <<>>)
    /\ log[1].status = "SUCCESS"
    /\ rows[2] = Row(W_del, T_b, T_v, <<>>)
    /\ log[2].status = "ERROR"
    /\ log[2].kind = "PasswordDeleteError"
    /\ CallsOf(2) # {}

\* a set row whose password field is empty after trimming
SetRowWithEmptyPassword(row) ==
    /\ row.password # None
    /\ RowFunction(row) = W_set
    /\ Strip(row.password) = <<>>

\* C5: every set row with an empty password that has been recorded has an
\* ERROR line, and issued no keyring call.
C5_EmptyPasswordSetFails ==
    \A k \in 1..Len(log) :
        (k <= Len(rows) /\ SetRowWithEmptyPassword(rows[k])) =>
            log[k].status = "ERROR" /\ CallsOf(k) = {}

\* a row whose trimmed system field exceeds MAX_SYSTEM_LENGTH
SystemOverLong(row) ==
    row.system # None /\ Len(Strip(row.system)) > MAX_SYSTEM_LENGTH

\* C6 as claimed: every recorded row with an over-long system has an ERROR
\* line citing the system-length limit, whatever its other fields are, and
\* issued no keyring call.
C6_Original_OverLongSystemCited ==
    \A k \in 1..Len(log) :
        (k <= Len(rows) /\ SystemOverLong(rows[k])) =>
            /\ log[k].status = "ERROR"
            /\ log[k].kind = SystemTooLong
            /\ CallsOf(k) = {}

\* C6 as amended: a row with all four fields and non-empty function and
\* username fields whose trimmed system exceeds MAX_SYSTEM_LENGTH is
\* recorded as an ERROR line that names the row and cites the system-length
\* limit, and issued no keyring call.
C6_OverLongSystemCited ==
    \A k \in 1..Len(rows) :
        (SystemOverLong(rows[k]) /\ FourFields(rows[k]) /\ ~MissingRequired(rows[k])) =>
            /\ k <= Len(log)
            /\ log[k].status = "ERROR"
            /\ log[k].kind = SystemTooLong
            /\ log[k].system = Strip(rows[k].system)
            /\ CallsOf(k) = {}

C6_Witness ==
    /\ Len(rows) = 2
    /\ Len(log) = 2
    /\ rows[2] = Row(W_set, Rep(MAX_SYSTEM_LENGTH + 1), T_u, T_p)
    /\ log[2].kind = SystemTooLong
    /\ rows[1] = Row(W_set, Rep(MAX_SYSTEM_LENGTH), T_u, T_p)
    /\ log[1].status = "SUCCESS"

\* rows j < k of the log: a successful set and a later successful get of the
\* same pair, with no set or del call on that pair from a row in between
SetThenGet(j, k) ==
    /\ j < k
    /\ log[j].status = "SUCCESS"
    /\ log[j].kind = "Set password for"
    /\ log[k].status = "SUCCESS"
    /\ log[k].kind = "Get password for"
    /\ log[k].system = log[j].system
    /\ log[k].username = log[j].username
    /\ \A c \in 1..Len(calls) :
         (calls[c].row > j /\ calls[c].row < k /\ calls[c].op \in {"set", "del"}) =>
             << calls[c].system, calls[c].username >>
                 # << log[j].system, log[j].username >>

\* C7 as claimed: the get line carries exactly the password text given in
\* the set row.
C7_Original_RoundTripExact ==
    \A j \in 1..Len(log), k \in 1..Len(log) :
        (Len(log) <= Len(rows) /\ SetThenGet(j, k)) =>
            log[k].arg = rows[j].password

\* C7 as amended: the get line carries the password text of the set row
\* with its leading and trailing whitespace removed.
C7_RoundTripTrimmed ==
    \A j \in 1..Len(log), k \in 1..Len(log) :
        (Len(log) <= Len(rows) /\ SetThenGet(j, k)) =>
            log[k].arg = Strip(rows[j].password)

C7_Witness ==
    /\ Len(log) = 2
    /\ SetThenGet(1, 2)
    /\ rows[1].password = T_p_pad
    /\ log[2].arg = T_p

\* C10: every ERROR line of the log carries the system and username of the
\* row it reports.
C10_ErrorLineNamesItsRow ==
    \A k \in 1..Len(log) :
        (k <= Len(rows) /\ log[k].status = "ERROR") => NamesRow(log[k], rows[k])

\* the rows whose calls are recorded come from process_bulk_csv
BatchCalls == {c \in 1..Len(calls) : calls[c].row >= 1}

EmptyTrimmed(v) == v # None /\ Strip(v) = <<>>

\* C13: a row whose system or username is empty after trimming, a
\* whitespace-only field included, is recorded as a Failure, and no store
\* operation is ever invoked with an empty system or username.
C13_EmptyNameNeverReachesStore ==
    /\ \A k \in 1..Len(log) :
          (k <= Len(rows)
             /\ (EmptyTrimmed(rows[k].system) \/ EmptyTrimmed(rows[k].username))) =>
              /\ log[k].status = "ERROR"
              /\ CallsOf(k) = {}
    /\ \A c \in BatchCalls :
          calls[c].system # <<>> /\ calls[c].username # <<>>

\* a data row with fewer or with more than four fields
WrongFieldCount(row) == ~FourFields(row) \/ row.extra

\* C14: a data row that has fewer or more fields than the four of the header
\* is recorded as a Failure and issues no store operation.
C14_WrongFieldCountFails ==
    \A k \in 1..Len(log) :
        (k <= Len(rows) /\ WrongFieldCount(rows[k])) =>
            /\ log[k].status = "ERROR"
            /\ CallsOf(k) = {}

\* C15: when the completion summary is emitted the results log has already
\* been closed, so every outcome line is in the file by then.
C15_LogClosedBeforeSummary ==
    \A r \in 1..Len(reports) :
        reports[r].kind = "complete" => reports[r].logState = "closed"

\* C16: for every row, Success or Failure, the outcome line is appended to
\* the results log first and only then shown by the reporter: when the
\* reporter receives the line of row k the log already holds k lines, the
\* last of them that line.
C16_LoggedBeforeReported ==
    \A r \in 1..Len(reports) :
        reports[r].kind = "row" =>
            /\ reports[r].logLen = r
            /\ r <= Len(log) => log[r] = reports[r].line

\* C17: a run ends Failed only straight from opening: whenever the run has
\* failed, no row outcome was recorded and no completion summary was
\* emitted; in particular a clipboard failure in the final sweep does not
\* turn a completed run into a failed one.
C17_FailedOnlyFromOpening ==
    pc = "failed" =>
        \A r \in 1..Len(reports) : reports[r].kind \notin {"row", "complete"}

\* a get row that passes the checks of lines 141-153 and reaches line 161
GetRow(row) ==
    /\ FourFields(row)
    /\ ~MissingRequired(row)
    /\ RowFunction(row) = W_get
    /\ LengthError(W_get, Strip(row.system), Strip(row.username),
                   Strip(row.password)) = "none"

\* C19: a get row never changes the store, and the absence of the entry is
\* not an error: the row is recorded as ERROR only when keyring.get_password
\* itself raises, whether the entry exists or not, and otherwise as a
\* SUCCESS line that, for an absent entry, shows the rendering of the absent
\* value.
C19_GetAbsentIsSuccess ==
    [][ ( /\ pc = "rows"
          /\ Len(rows') = Len(rows) + 1
          /\ GetRow(rows'[Len(rows')]) )
        => ( /\ store' = store
             /\ Len(log') = Len(log) + 1
             /\ log'[Len(log')].status \in {"SUCCESS", "ERROR"}
             /\ log'[Len(log')].status = "ERROR" =>
                    log'[Len(log')].kind = "KeyringError"
             /\ ( /\ log'[Len(log')].status = "SUCCESS"
                  /\ RowKey(rows'[Len(rows')]) \notin DOMAIN store ) =>
                    log'[Len(log')].arg = Render(None) ) ]_vars

\* a get row for the absent pair a/u was recorded as SUCCESS showing None,
\* the store as it was
C19_Witness ==
    /\ Len(rows) = 1
    /\ Len(log) = 1
    /\ rows[1] = Row(W_get, T_a, T_u, <<>>)
    /\ << T_a, T_u >> \notin DOMAIN store
    /\ log[1].status = "SUCCESS"
    /\ log[1].arg = Render(None)
    /\ store = InitialStore
    /\ Len(calls) = 1

====
